---------------------------- MODULE Spec2Model ----------------------------
(***************************************************************************)
(* Model of support/kind/kind.go: the lifecycle of a kind cluster handle   *)
(* (Create, Destroy, ExportLogs, configuration setters), the credential    *)
(* extraction into a temporary file, the exact-line existence check on the *)
(* tool's cluster listing, and the control-plane readiness gate.           *)
(*                                                                         *)
(* Strings that the code splits or compares character by character (the    *)
(* cluster names and the cluster listing) are sequences of one-character   *)
(* strings.  File paths are numbers: NoPath is the empty path "", every    *)
(* other number is one temporary file name os.CreateTemp can hand out.     *)
(***************************************************************************)
EXTENDS Integers, Sequences, FiniteSets, TLC

VARIABLES
    kindVersion,   \* package variable kindVersion
    path,          \* Cluster.path, per handle
    name,          \* Cluster.name, per handle
    kubecfgFile,   \* Cluster.kubecfgFile, per handle
    version,       \* Cluster.version, per handle
    rc,            \* Cluster.rc, per handle: NilRc or the file it was parsed from
    clusters,      \* the clusters the provisioning tool has registered
    disk,          \* the temporary files on disk: path -> [content, owner]
    last,          \* the most recent exposed call: what it did and returned
    exListing,     \* existence check under test: the tool's cluster listing
    exName,        \* existence check under test: the name looked for
    exDone,        \* existence check under test: the check has run
    exOk,          \* existence check under test: its result
    wpc,           \* WaitForControlPlane: "idle", "wait" (inside wait.For), "done"
    wgroup,        \* WaitForControlPlane: index of the selector group waited on
    wctx,          \* WaitForControlPlane: the caller's context is cancelled
    wctxAtCall,    \* WaitForControlPlane: the context was cancelled at the call
    polls,         \* WaitForControlPlane: the pod listings issued by this call
    wres           \* WaitForControlPlane: the returned error ("nil" for none)

lifeVars == <<kindVersion, path, name, kubecfgFile, version, rc, clusters, disk, last>>

existsVars == <<exListing, exName, exDone, exOk>>

waitVars == <<wpc, wgroup, wctx, wctxAtCall, polls, wres>>

vars == <<kindVersion, path, name, kubecfgFile, version, rc, clusters, disk, last,
          exListing, exName, exDone, exOk,
          wpc, wgroup, wctx, wctxAtCall, polls, wres>>

-----------------------------------------------------------------------------
(* Bounds of the model *)

\* number of temporary file names os.CreateTemp can choose from
MaxFiles == 2

-----------------------------------------------------------------------------
(* Values *)

\* the handle the lifecycle specification drives, and a second handle of the
\* same process, which shares the package variable and the tool with it
Handles == {1}
OtherHandles == {2}
AllHandles == Handles \cup OtherHandles

NL == "\n"

\* the cluster names of the model; <<>> is the empty name of NewProvider()
NoName == <<>>
NameA == <<"a">>
Names == {NoName, NameA}

\* the order in which the tool lists its clusters
NameOrder == <<NameA>>

NoPath == 0
Paths == 1..MaxFiles

NilRc == 0

DefaultKindVersion == "v0.17.0"

\* a version a caller sets with WithVersion
CustomVersion == "v0.20.0"

InstalledPath == "/go/bin/kind"

\* the path SetDefaults gives a handle that has none
DefaultPath == "kind"

\* a path a caller sets with WithPath
CustomPath == "/opt/kind"

\* the longest option list given to WithOpts
MaxOpts == 2

-----------------------------------------------------------------------------
(* strings.Split and the cluster listing *)

RECURSIVE Split(_, _)
\* strings.Split(s, sep) for a one-character separator: the pieces between
\* the separators, in order; a string without separator is its own one piece
\* (so Split("", sep) is one empty piece).
Split(s, sep) ==
    IF \E i \in 1..Len(s) : s[i] = sep
    THEN LET i == CHOOSE j \in 1..Len(s) :
                     s[j] = sep /\ \A m \in 1..(j - 1) : s[m] # sep
         IN  <<SubSeq(s, 1, i - 1)>> \o Split(SubSeq(s, i + 1, Len(s)), sep)
    ELSE <<s>>

RECURSIVE Join(_, _)
\* the lines of a listing joined by sep
Join(lines, sep) ==
    IF lines = <<>> THEN <<>>
    ELSE IF Len(lines) = 1 THEN lines[1]
    ELSE lines[1] \o <<sep>> \o Join(Tail(lines), sep)

\* the output of "<path> get clusters": one registered cluster per line
FetchClusters(registered) ==
    Join(SelectSeq(NameOrder, LAMBDA n : n \in registered), NL)

\* an existence check that accepts a line the name is a prefix of
ExistsInPrefix(listing, n) ==
    LET pieces == Split(listing, NL)
    IN  \E i \in 1..Len(pieces) :
            Len(pieces[i]) >= Len(n) /\ SubSeq(pieces[i], 1, Len(n)) = n

\* Cluster.clusterExists on a given listing: the listing and whether some
\* piece of strings.Split(listing, "\n") equals the name
ExistsIn(listing, n) ==
    LET pieces == Split(listing, NL)
    IN  \E i \in 1..Len(pieces) : pieces[i] = n

clusterExists(registered, n) ==
    LET listing == FetchClusters(registered)
    IN  [clusters |-> listing, ok |-> ExistsIn(listing, n)]

-----------------------------------------------------------------------------
(* The collaborators' outcomes *)

\* utils.FindOrInstallGoBasedProvider: a path (maybe empty) and an error
InstallOutcomes ==
    { [path |-> p, err |-> e] : p \in {"", InstalledPath}, e \in BOOLEAN }

\* "<path> create cluster --name <name>": fails, succeeds and registers the
\* cluster, or reports success without registering it
CreateOutcomes == {"fail", "ok", "ok_unregistered"}

\* the tool's registry after a successful "create cluster --name n": the
\* tool keeps no cluster under the empty name
Register(registered, co, n) ==
    IF co = "ok" /\ n # NoName THEN registered \cup {n} ELSE registered

\* "<path> get kubeconfig --name <name>" and the copy of its output into the
\* temporary file: the command fails, reading its output fails, the copy
\* fails part-way, or the output is empty, unparseable or a valid kubeconfig
KubeOutcomes == {"cmd_err", "read_err", "copy_err", "empty", "bad", "good"}

\* conf.New(file): parses the file at the path
confNew(file, d) == file \in DOMAIN d /\ d[file].content = "good"

-----------------------------------------------------------------------------
(* Cluster.findOrInstallKind *)

findOrInstallKind(h, inst) ==
    LET ver == IF version[h] # "" THEN version[h] ELSE kindVersion
    IN  [kindVersion |-> ver,
         ver  |-> ver,
         path |-> IF inst.path # "" THEN inst.path ELSE path[h],
         err  |-> inst.err]

\* an extraction that hands back the path the handle already holds
getKubeconfigCached(h, kc, newp, d) ==
    IF kubecfgFile[h] # NoPath
    THEN [ret |-> kubecfgFile[h], err |-> "nil", file |-> kubecfgFile[h], disk |-> d]
    ELSE IF kc = "cmd_err" \/ kc = "read_err" \/ newp = NoPath
    THEN [ret |-> NoPath, err |-> "getkubeconfig", file |-> kubecfgFile[h], disk |-> d]
    ELSE LET d2 == [p \in DOMAIN d \cup {newp} |->
                       IF p = newp THEN [content |-> kc, owner |-> h] ELSE d[p]]
         IN  [ret |-> newp, err |-> "nil", file |-> newp, disk |-> d2]

(* Cluster.getKubeconfig on disk d: newp is the name os.CreateTemp picks,    *)
(* NoPath when it fails.                                                     *)
getKubeconfig(h, kc, newp, d) ==
    IF kc = "cmd_err"
    THEN [ret |-> NoPath, err |-> "getkubeconfig", file |-> kubecfgFile[h], disk |-> d]
    ELSE IF kc = "read_err"
    THEN [ret |-> NoPath, err |-> "stdout", file |-> kubecfgFile[h], disk |-> d]
    ELSE IF newp = NoPath
    THEN [ret |-> NoPath, err |-> "tmpfile", file |-> kubecfgFile[h], disk |-> d]
    ELSE LET written == IF kc = "copy_err" THEN "bad" ELSE kc
             d2 == [p \in DOMAIN d \cup {newp} |->
                       IF p = newp THEN [content |-> written, owner |-> h]
                       ELSE d[p]]
         IN  IF kc = "empty" \/ kc = "copy_err"
             THEN [ret |-> NoPath, err |-> "copy", file |-> newp, disk |-> d2]
             ELSE [ret |-> newp, err |-> "nil", file |-> newp, disk |-> d2]

\* a client initialisation that keeps the configuration of a file that does
\* not parse
initKubernetesAccessClientsAlways(h, file, d) ==
    IF confNew(file, d)
    THEN [rc |-> file, err |-> "nil"]
    ELSE [rc |-> file, err |-> "parse"]

(* Cluster.initKubernetesAccessClients *)
initKubernetesAccessClients(h, file, d) ==
    IF confNew(file, d)
    THEN [rc |-> file, err |-> "nil"]
    ELSE [rc |-> rc[h], err |-> "parse"]

-----------------------------------------------------------------------------
(* Cluster.Create *)

\* the existing-cluster branch of Create (kind.go:165-168)
CreateExisting(h, kc, newp) ==
    LET g == getKubeconfig(h, kc, newp, disk)
    IN  [err |-> g.err, ret |-> g.ret,
         calls |-> <<"get clusters", "get kubeconfig">>,
         clusters |-> clusters, file |-> g.file, disk |-> g.disk, rc |-> rc[h]]

\* the end of Create returning the file of a failed extraction with the error
CreateFinishReturnsFile(h, kc, newp, reg) ==
    LET g == getKubeconfig(h, kc, newp, disk)
        i == initKubernetesAccessClients(h, g.file, g.disk)
        c == <<"get clusters", "create cluster", "get clusters", "get kubeconfig">>
    IN  IF g.err # "nil"
        THEN [err |-> g.err, ret |-> g.file, calls |-> c,
              clusters |-> reg, file |-> g.file, disk |-> g.disk, rc |-> rc[h]]
        ELSE [err |-> i.err, ret |-> g.ret, calls |-> c,
              clusters |-> reg, file |-> g.file, disk |-> g.disk, rc |-> i.rc]

\* the credential extraction and client initialisation after a create
\* (kind.go:192-196)
CreateFinish(h, kc, newp, reg) ==
    LET g == getKubeconfig(h, kc, newp, disk)
        i == initKubernetesAccessClients(h, g.file, g.disk)
        c == <<"get clusters", "create cluster", "get clusters", "get kubeconfig">>
    IN  IF g.err # "nil"
        THEN [err |-> g.err, ret |-> NoPath, calls |-> c,
              clusters |-> reg, file |-> g.file, disk |-> g.disk, rc |-> rc[h]]
        ELSE [err |-> i.err, ret |-> g.ret, calls |-> c,
              clusters |-> reg, file |-> g.file, disk |-> g.disk, rc |-> i.rc]

\* Create without the first existence check: it always provisions
CreateBodyNoCheck(h, co, kc, newp) ==
    LET c == IF co = "none" THEN "ok" ELSE co
        reg == Register(clusters, c, name[h])
        same == [clusters |-> clusters, file |-> kubecfgFile[h],
                 disk |-> disk, rc |-> rc[h], ret |-> NoPath]
    IN  IF c = "fail"
        THEN same @@
             [err |-> "create", calls |-> <<"get clusters", "create cluster">>]
        ELSE IF ~clusterExists(reg, name[h]).ok
        THEN same @@
             [err |-> "inconsistent",
              calls |-> <<"get clusters", "create cluster", "get clusters">>]
        ELSE CreateFinish(h, kc, newp, reg)

\* Create without the existence check after the create invocation
CreateBodyNoRecheck(h, co, kc, newp) ==
    LET reg == Register(clusters, co, name[h])
        same == [clusters |-> clusters, file |-> kubecfgFile[h],
                 disk |-> disk, rc |-> rc[h], ret |-> NoPath]
    IN  IF clusterExists(clusters, name[h]).ok
        THEN CreateExisting(h, kc, newp)
        ELSE IF co = "fail"
        THEN same @@
             [err |-> "create", calls |-> <<"get clusters", "create cluster">>]
        ELSE CreateFinish(h, kc, newp, reg)

\* Create that runs "create cluster" a second time when it fails
CreateBodyRetry(h, co, kc, newp) ==
    LET reg == Register(clusters, co, name[h])
        same == [clusters |-> clusters, file |-> kubecfgFile[h],
                 disk |-> disk, rc |-> rc[h], ret |-> NoPath]
    IN  IF clusterExists(clusters, name[h]).ok
        THEN CreateExisting(h, kc, newp)
        ELSE IF co = "fail"
        THEN same @@
             [err |-> "create",
              calls |-> <<"get clusters", "create cluster", "create cluster">>]
        ELSE IF ~clusterExists(reg, name[h]).ok
        THEN same @@
             [err |-> "inconsistent",
              calls |-> <<"get clusters", "create cluster", "get clusters">>]
        ELSE CreateFinish(h, kc, newp, reg)

\* Create after the tool has been resolved (kind.go:165-197)
CreateBody(h, co, kc, newp) ==
    LET reg == Register(clusters, co, name[h])
        same == [clusters |-> clusters, file |-> kubecfgFile[h],
                 disk |-> disk, rc |-> rc[h], ret |-> NoPath]
    IN  IF clusterExists(clusters, name[h]).ok
        THEN CreateExisting(h, kc, newp)
        ELSE IF co = "fail"
        THEN same @@
             [err |-> "create", calls |-> <<"get clusters", "create cluster">>]
        ELSE IF ~clusterExists(reg, name[h]).ok
        THEN same @@
             [err |-> "inconsistent",
              calls |-> <<"get clusters", "create cluster", "get clusters">>]
        ELSE CreateFinish(h, kc, newp, reg)

\* how far the calls up to this one are into a Create, Destroy, Create cycle
\* of one handle, each call returning no error and directly following the
\* one before: 1 after the Create, 2 after the Destroy, 3 after the second
\* Create, 0 otherwise
CycleStage(op, h, err) ==
    IF op = "Create" /\ err = "nil"
    THEN IF last.cycle = 2 /\ last.h = h THEN 3 ELSE 1
    ELSE IF op = "Destroy" /\ err = "nil" /\ last.cycle \in {1, 3} /\ last.h = h
    THEN 2
    ELSE 0

\* the record of an exposed call: the operation, the handle, the error and
\* path it returned, the tool invocations it issued in order, the version it
\* gave the installer ("none" when the installer was not called), the
\* outcomes it drew from "create cluster" and from the credential extraction
\* ("none" when not reached), and whether it is a Create that directly
\* follows a Create of the same handle that returned no error
Call(op, h, err, ret, calls, ver, create, kube) ==
    [op |-> op, h |-> h, err |-> err, ret |-> ret, calls |-> calls, ver |-> ver,
     create |-> create, kube |-> kube,
     again |-> op = "Create" /\ last.op = "Create" /\ last.h = h /\ last.err = "nil",
     cycle |-> CycleStage(op, h, err)]

\* the collaborators' outcomes a Create call consumes: a step the call does
\* not reach draws no outcome
CreateDraws(h, inst) ==
    IF inst.err \/ clusterExists(clusters, name[h]).ok THEN {"none"}
    ELSE CreateOutcomes

KubeDraws(h, inst, co) ==
    IF inst.err \/ co = "fail"
       \/ ~clusterExists(Register(clusters, co, name[h]), name[h]).ok
    THEN {<<"none", NoPath>>}
    ELSE {k \in KubeOutcomes \X ((Paths \ DOMAIN disk) \cup {NoPath}) :
              k[1] \in {"cmd_err", "read_err"} => k[2] = NoPath}

Create(h) ==
    \E inst \in InstallOutcomes :
    \E co \in CreateDraws(h, inst) :
    \E k \in KubeDraws(h, inst, co) :
        LET f == findOrInstallKind(h, inst)
            r == CreateBody(h, co, k[1], k[2])
        IN  /\ kindVersion' = f.kindVersion
            /\ path' = [path EXCEPT ![h] = f.path]
            /\ IF f.err
               THEN /\ UNCHANGED <<kubecfgFile, rc, clusters, disk>>
                    /\ last' = Call("Create", h, "install", NoPath, <<>>, f.ver,
                                    "none", "none")
               ELSE /\ kubecfgFile' = [kubecfgFile EXCEPT ![h] = r.file]
                    /\ rc' = [rc EXCEPT ![h] = r.rc]
                    /\ clusters' = r.clusters
                    /\ disk' = r.disk
                    /\ last' = Call("Create", h, r.err, r.ret, r.calls, f.ver,
                                    co, k[1])
            /\ UNCHANGED <<name, version>>
            /\ UNCHANGED <<existsVars, waitVars>>

-----------------------------------------------------------------------------
(* Cluster.Destroy *)

\* os.RemoveAll(file): removes the file if it is there; the empty path and a
\* missing file are no error
RemoveNothing(file, d) == d

RemoveAll(file, d) == [p \in DOMAIN d \ {file} |-> d[p]]

\* the record of a Destroy call: as Call, with the outcomes it drew from
\* "delete cluster" and from os.RemoveAll ("none" when not reached)
DestroyCall(h, err, calls, ver, del, rm) ==
    Call("Destroy", h, err, NoPath, calls, ver, "none", "none")
        @@ [del |-> del, rm |-> rm]

\* Destroy that reports no error when the file removal fails
DestroyBodySwallow(h, delOk, rmOk) ==
    IF ~delOk
    THEN [err |-> "delete", clusters |-> clusters, disk |-> disk,
          del |-> "fail", rm |-> "none"]
    ELSE IF ~rmOk
    THEN [err |-> "nil", clusters |-> clusters \ {name[h]}, disk |-> disk,
          del |-> "ok", rm |-> "fail"]
    ELSE [err |-> "nil", clusters |-> clusters \ {name[h]},
          disk |-> RemoveAll(kubecfgFile[h], disk), del |-> "ok", rm |-> "ok"]

\* Destroy after the tool has been resolved (kind.go:237-247)
DestroyBody(h, delOk, rmOk) ==
    IF ~delOk
    THEN [err |-> "delete", clusters |-> clusters, disk |-> disk,
          del |-> "fail", rm |-> "none"]
    ELSE IF ~rmOk
    THEN [err |-> "remove", clusters |-> clusters \ {name[h]}, disk |-> disk,
          del |-> "ok", rm |-> "fail"]
    ELSE [err |-> "nil", clusters |-> clusters \ {name[h]},
          disk |-> RemoveAll(kubecfgFile[h], disk), del |-> "ok", rm |-> "ok"]

Destroy(h) ==
    \E inst \in InstallOutcomes :
    \E delOk \in (IF inst.err THEN {FALSE} ELSE BOOLEAN) :
    \E rmOk \in (IF delOk THEN BOOLEAN ELSE {FALSE}) :
        LET f == findOrInstallKind(h, inst)
            r == DestroyBody(h, delOk, rmOk)
        IN  /\ kindVersion' = f.kindVersion
            /\ path' = [path EXCEPT ![h] = f.path]
            /\ IF f.err
               THEN /\ UNCHANGED <<clusters, disk>>
                    /\ last' = DestroyCall(h, "install", <<>>, f.ver, "none", "none")
               ELSE /\ clusters' = r.clusters
                    /\ disk' = r.disk
                    /\ last' = DestroyCall(h, r.err, <<"delete cluster">>, f.ver,
                                           r.del, r.rm)
            /\ UNCHANGED <<name, kubecfgFile, version, rc>>
            /\ UNCHANGED <<existsVars, waitVars>>

-----------------------------------------------------------------------------
(* Cluster.ExportLogs, Cluster.LoadImage, Cluster.LoadImageArchive *)

ExportLogs(h) ==
    \E inst \in InstallOutcomes :
    \E runOk \in (IF inst.err THEN {FALSE} ELSE BOOLEAN) :
        LET f == findOrInstallKind(h, inst)
        IN  /\ kindVersion' = f.kindVersion
            /\ path' = [path EXCEPT ![h] = f.path]
            /\ last' = IF f.err
                       THEN Call("ExportLogs", h, "install", NoPath, <<>>, f.ver,
                                 "none", "none")
                       ELSE Call("ExportLogs", h, IF runOk THEN "nil" ELSE "export",
                                 NoPath, <<"export logs">>, f.ver, "none", "none")
            /\ UNCHANGED <<name, kubecfgFile, version, rc, clusters, disk>>
            /\ UNCHANGED <<existsVars, waitVars>>

\* the tool is run with k.path as it stands; the locator is not called
LoadImage(h) ==
    \E runOk \in BOOLEAN :
        /\ last' = Call("LoadImage", h, IF runOk THEN "nil" ELSE "load", NoPath,
                        <<"load docker-image">>, "none", "none", "none")
        /\ UNCHANGED <<kindVersion, path, name, kubecfgFile, version, rc, clusters, disk>>
        /\ UNCHANGED <<existsVars, waitVars>>

LoadImageArchive(h) ==
    \E runOk \in BOOLEAN :
        /\ last' = Call("LoadImageArchive", h, IF runOk THEN "nil" ELSE "load", NoPath,
                        <<"load image-archive">>, "none", "none", "none")
        /\ UNCHANGED <<kindVersion, path, name, kubecfgFile, version, rc, clusters, disk>>
        /\ UNCHANGED <<existsVars, waitVars>>

-----------------------------------------------------------------------------
(* The configuration setters and the getters *)

WithName(h) ==
    \E n \in Names :
        /\ name' = [name EXCEPT ![h] = n]
        /\ last' = Call("WithName", h, "nil", NoPath, <<>>, "none", "none", "none")
        /\ UNCHANGED <<kindVersion, path, kubecfgFile, version, rc, clusters, disk>>
        /\ UNCHANGED <<existsVars, waitVars>>

\* Cluster.WithPath
WithPath(h) ==
    \E p \in {"", CustomPath} :
        /\ path' = [path EXCEPT ![h] = p]
        /\ last' = Call("WithPath", h, "nil", NoPath, <<>>, "none", "none", "none")
        /\ UNCHANGED <<kindVersion, name, kubecfgFile, version, rc, clusters, disk>>
        /\ UNCHANGED <<existsVars, waitVars>>

\* Cluster.SetDefaults
SetDefaults(h) ==
    /\ path' = [path EXCEPT ![h] = IF path[h] = "" THEN DefaultPath ELSE path[h]]
    /\ last' = Call("SetDefaults", h, "nil", NoPath, <<>>, "none", "none", "none")
    /\ UNCHANGED <<kindVersion, name, kubecfgFile, version, rc, clusters, disk>>
    /\ UNCHANGED <<existsVars, waitVars>>

\* the options of the package: WithImage(image) sets k.image, which no
\* operation of the lifecycle reads, and WithPath(path) sets k.path
ClusterOpts ==
    {[opt |-> "WithImage", path |-> ""], [opt |-> "WithPath", path |-> CustomPath]}

\* the path of a handle after the options opts have run in order on one
\* whose path is p
RECURSIVE ApplyOpts(_, _)
ApplyOpts(opts, p) ==
    IF opts = <<>> THEN p
    ELSE ApplyOpts(Tail(opts),
                   IF Head(opts).opt = "WithPath" THEN Head(opts).path ELSE p)

\* Cluster.WithOpts
WithOpts(h) ==
    \E opts \in UNION {[1..n -> ClusterOpts] : n \in 0..MaxOpts} :
        /\ path' = [path EXCEPT ![h] = ApplyOpts(opts, path[h])]
        /\ last' = Call("WithOpts", h, "nil", NoPath, <<>>, "none", "none", "none")
        /\ UNCHANGED <<kindVersion, name, kubecfgFile, version, rc, clusters, disk>>
        /\ UNCHANGED <<existsVars, waitVars>>

\* Cluster.WithVersion
WithVersion(h) ==
    \E v \in {"", CustomVersion} :
        /\ version' = [version EXCEPT ![h] = v]
        /\ last' = Call("WithVersion", h, "nil", NoPath, <<>>, "none", "none", "none")
        /\ UNCHANGED <<kindVersion, path, name, kubecfgFile, rc, clusters, disk>>
        /\ UNCHANGED <<existsVars, waitVars>>

\* Cluster.GetKubeconfig
GetKubeconfig(h) == kubecfgFile[h]

\* Cluster.KubernetesRestConfig
KubernetesRestConfig(h) == rc[h]

\* os.Stat on a path: the empty path names no file
ExistsOnDisk(p) == p \in DOMAIN disk

-----------------------------------------------------------------------------
(* The lifecycle specification: one handle, any sequence of calls *)

\* NewCluster(name) or NewProvider() for every handle, before any call
InitLife ==
    /\ kindVersion = DefaultKindVersion
    /\ path = [h \in AllHandles |-> ""]
    /\ name \in {f \in [AllHandles -> Names] : \A h \in OtherHandles : f[h] = NameA}
    /\ kubecfgFile = [h \in AllHandles |-> NoPath]
    /\ version = [h \in AllHandles |-> ""]
    /\ rc = [h \in AllHandles |-> NilRc]
    /\ clusters \in SUBSET (Names \ {NoName})
    /\ disk = << >>
    /\ last = [op |-> "New", h |-> 1, err |-> "nil", ret |-> NoPath,
               calls |-> <<>>, ver |-> "none", create |-> "none",
               kube |-> "none", again |-> FALSE, cycle |-> 0]

\* no existence check under test
InitExistsIdle ==
    /\ exListing = <<>>
    /\ exName = <<>>
    /\ exDone = FALSE
    /\ exOk = FALSE

\* no readiness wait in progress
InitWaitIdle ==
    /\ wpc = "idle"
    /\ wgroup = 1
    /\ wctx = FALSE
    /\ wctxAtCall = FALSE
    /\ polls = <<>>
    /\ wres = "nil"

Init == InitLife /\ InitExistsIdle /\ InitWaitIdle

Next ==
    \E h \in Handles :
        \/ Create(h)
        \/ Destroy(h)
        \/ WithName(h)
        \/ ExportLogs(h)
        \/ LoadImage(h)
        \/ LoadImageArchive(h)
        \/ WithPath(h)
        \/ SetDefaults(h)
        \/ WithOpts(h)

Spec == Init /\ [][Next]_vars

-----------------------------------------------------------------------------
(* The tool resolution: two handles of one process, each with or without a *)
(* version of its own, running the operations that resolve the tool        *)

InitVersionSpec ==
    /\ InitLife
    /\ name = [h \in AllHandles |-> NameA]
    /\ clusters = {}
    /\ InitExistsIdle
    /\ InitWaitIdle

NextVersion ==
    \/ \E h \in AllHandles : WithVersion(h)
    \/ \E h \in AllHandles : ExportLogs(h)
    \/ \E h \in AllHandles : Destroy(h)
    \/ \E h \in Handles : Create(h)

SpecVersion == InitVersionSpec /\ [][NextVersion]_vars

-----------------------------------------------------------------------------
(* The existence check on its own: clusterExists applied to a listing *)

\* bounds of the listings and names the check is run on
MaxListLen == 3
MaxNameLen == 2

Alphabet == {"a", "A", " ", NL}

\* the strings over the alphabet of at most n characters
StringsUpTo(n) == UNION {[1..k -> Alphabet] : k \in 0..n}

\* the listings and names of section 8 of the specification
ListingABC == <<"a", NL, "b", NL, "c">>
ListingFooBar == <<"f", "o", "o", "-", "b", "a", "r">>
NameFoo == <<"f", "o", "o">>

ListingInputs == StringsUpTo(MaxListLen) \cup {ListingABC, ListingFooBar}
NameInputs == StringsUpTo(MaxNameLen) \cup {<<"b">>, <<"d">>, NameFoo}

InitExists ==
    /\ exListing \in ListingInputs
    /\ exName \in NameInputs
    /\ exDone = FALSE
    /\ exOk = FALSE

\* one call of clusterExists(exName) when the tool prints exListing
ClusterExistsCall ==
    /\ ~exDone
    /\ exDone' = TRUE
    /\ exOk' = ExistsIn(exListing, exName)
    /\ UNCHANGED <<exListing, exName>>
    /\ UNCHANGED <<lifeVars, waitVars>>

\* a handle that takes no part in the check
InitLifeIdle ==
    /\ InitLife
    /\ name = [h \in AllHandles |-> NameA]
    /\ clusters = {}

InitExistsSpec == InitLifeIdle /\ InitExists /\ InitWaitIdle

NextExists == ClusterExistsCall

SpecExists == InitExistsSpec /\ [][NextExists]_vars

-----------------------------------------------------------------------------
(* Cluster.WaitForControlPlane *)

\* bounds of the readiness wait: pod listings per call, pods a listing shows
MaxPolls == 3
MaxPods == 4

\* the selector groups in the reverse order
SelectorGroupsSwapped ==
    << [Key |-> "k8s-app",
        Values |-> <<"kindnet", "kube-dns", "kube-proxy">>],
       [Key |-> "component",
        Values |-> <<"etcd", "kube-apiserver", "kube-controller-manager",
                     "kube-scheduler">>] >>

\* the label selector requirements the loop ranges over (kind.go:282-285)
SelectorGroups ==
    << [Key |-> "component",
        Values |-> <<"etcd", "kube-apiserver", "kube-controller-manager",
                     "kube-scheduler">>],
       [Key |-> "k8s-app",
        Values |-> <<"kindnet", "kube-dns", "kube-proxy">>] >>

\* the count handed to ResourceListN: len(sl.Values)
Expected(g) == Len(SelectorGroups[g].Values)

\* conditions.ResourceListN: the listing shows at least n matching pods
ResourceListN(seen, n) == seen >= n

\* the loop after wait.For returned for group g: an error is returned at
\* once, otherwise the next group is waited on, and nil is returned after the
\* last one (kind.go:296-301)
AfterWait(g, err) ==
    IF err # "nil" THEN [pc |-> "done", group |-> g, res |-> err]
    ELSE IF g < Len(SelectorGroups) THEN [pc |-> "wait", group |-> g + 1, res |-> "nil"]
    ELSE [pc |-> "done", group |-> g, res |-> "nil"]

\* the call, up to the first wait.For: resources.New on the client's
\* configuration may fail; the context handed in is not looked at
WaitForControlPlane ==
    /\ wpc = "idle"
    /\ \E cancelled \in BOOLEAN, newOk \in BOOLEAN :
        /\ wctx' = cancelled
        /\ wctxAtCall' = cancelled
        /\ polls' = <<>>
        /\ IF newOk
           THEN wpc' = "wait" /\ wgroup' = 1 /\ wres' = "nil"
           ELSE wpc' = "done" /\ wgroup' = 1 /\ wres' = "resources"
    /\ UNCHANGED <<lifeVars, existsVars>>

\* one polling attempt of wait.For for the current group: the pod listing
\* fails, or shows some number of matching pods
WaitPoll ==
    /\ wpc = "wait"
    /\ Len(polls) < MaxPolls
    /\ \E listOk \in BOOLEAN, seen \in 0..MaxPods :
        LET key == SelectorGroups[wgroup].Key
            a == AfterWait(wgroup, IF listOk THEN "nil" ELSE "list")
        IN  /\ listOk \/ seen = 0
            /\ polls' = Append(polls, [Key |-> key, seen |-> seen, ok |-> listOk])
            /\ IF listOk /\ ~ResourceListN(seen, Expected(wgroup))
               THEN UNCHANGED <<wpc, wgroup, wres>>
               ELSE wpc' = a.pc /\ wgroup' = a.group /\ wres' = a.res
    /\ UNCHANGED <<wctx, wctxAtCall>>
    /\ UNCHANGED <<lifeVars, existsVars>>

\* wait.For gives up on the current group: its timeout expired
WaitTimeout ==
    /\ wpc = "wait"
    /\ LET a == AfterWait(wgroup, "timeout")
       IN  wpc' = a.pc /\ wgroup' = a.group /\ wres' = a.res
    /\ UNCHANGED <<wctx, wctxAtCall, polls>>
    /\ UNCHANGED <<lifeVars, existsVars>>

\* the caller cancels the context while the call is waiting
CtxCancel ==
    /\ wpc = "wait"
    /\ ~wctx
    /\ wctx' = TRUE
    /\ UNCHANGED <<wpc, wgroup, wctxAtCall, polls, wres>>
    /\ UNCHANGED <<lifeVars, existsVars>>

\* the call has returned; the caller may call again
WaitReturn ==
    /\ wpc = "done"
    /\ wpc' = "idle"
    /\ UNCHANGED <<wgroup, wctx, wctxAtCall, polls, wres>>
    /\ UNCHANGED <<lifeVars, existsVars>>

NextWait ==
    \/ WaitForControlPlane
    \/ WaitPoll
    \/ WaitTimeout
    \/ CtxCancel
    \/ WaitReturn

InitWaitSpec == InitLifeIdle /\ InitExistsIdle /\ InitWaitIdle

SpecWait == InitWaitSpec /\ [][NextWait]_vars

-----------------------------------------------------------------------------
(* Properties of the lifecycle *)

Issued(c, sub) == \E i \in 1..Len(c.calls) : c.calls[i] = sub

\* C1: a Create that directly follows a Create of the same handle that
\* returned no error issues no "create cluster" invocation: the existence
\* check short-circuits it.
C1_SecondCreateDoesNotProvision ==
    (last.op = "Create" /\ last.again) =>
        /\ ~Issued(last, "create cluster")
        /\ last.create = "none"
        /\ last.err # "install" => last.calls[1] = "get clusters"

\* a second Create in succession ran, past the tool resolution, after the
\* first had provisioned the cluster
C1_Witness ==
    /\ last.op = "Create" /\ last.again /\ last.err = "nil"
    /\ name[last.h] \in clusters
    /\ last.calls = <<"get clusters", "get kubeconfig">>

\* C2: two Create calls in succession on one handle, both returning no
\* error, return the same credential file path, and GetKubeconfig is that
\* path after both.
C2_SamePathTwice ==
    [][(/\ last.op = "Create" /\ last.err = "nil"
        /\ name[last.h] \in clusters
        /\ last'.op = "Create" /\ last'.h = last.h /\ last'.err = "nil")
       => (/\ last'.ret = last.ret
           /\ GetKubeconfig(last.h)' = GetKubeconfig(last.h))]_vars

\* C3: after every Create that returns no error the client configuration of
\* the handle is set, parsed from the credential file the call extracted
\* (stated for a cluster the tool lists and credentials that parse).
C3_ConfigAfterCreate ==
    (/\ last.op = "Create" /\ last.err = "nil"
     /\ name[last.h] \in clusters /\ last.kube = "good") =>
        /\ KubernetesRestConfig(last.h) # NilRc
        /\ KubernetesRestConfig(last.h) = last.ret

\* C4: a credential extraction that copies zero bytes fails, and the handle
\* does not refer to a zero-length file afterwards (stated for a cluster the
\* tool lists).
C4_ZeroByteGuard ==
    (/\ last.op = "Create" /\ last.kube = "empty"
     /\ Issued(last, "get kubeconfig") /\ name[last.h] \in clusters) =>
        /\ last.err # "nil"
        /\ ~(/\ ExistsOnDisk(GetKubeconfig(last.h))
             /\ disk[GetKubeconfig(last.h)].content = "empty")

\* C5: whenever Destroy returns no error, the path GetKubeconfig returns
\* does not exist on disk.
C5_DestroyInvalidatesCredentials ==
    (last.op = "Destroy" /\ last.err = "nil") =>
        ~ExistsOnDisk(GetKubeconfig(last.h))

\* a Destroy that returned no error on a handle that had extracted
\* credentials into a file
C5_Witness ==
    /\ last.op = "Destroy" /\ last.err = "nil"
    /\ GetKubeconfig(last.h) # NoPath
    /\ rc[last.h] # NilRc

\* the complete, valid credential files a handle wrote that are on disk
FilesOf(h) == {p \in DOMAIN disk : disk[p].owner = h /\ disk[p].content = "good"}

\* C6: at most one credential file written by a handle is on disk while its
\* cluster is live, and none after a Destroy that returned no error.
C6_OneCredentialFile ==
    \A h \in Handles :
        /\ name[h] \in clusters => Cardinality(FilesOf(h)) <= 1
        /\ (last.op = "Destroy" /\ last.h = h /\ last.err = "nil") => FilesOf(h) = {}

\* C9: when "create cluster" reports success and the listing after it still
\* lacks the name, Create returns the inconsistency error, has issued one
\* create and no credential extraction, and leaves the credential file path,
\* the client configuration and the disk as they were.
C9_InconsistencyError ==
    [][(/\ last'.op = "Create"
        /\ last'.create \in {"ok", "ok_unregistered"}
        /\ ~ExistsIn(FetchClusters(clusters'), name[last'.h]))
       => (/\ last'.err = "inconsistent"
           /\ last'.ret = NoPath
           /\ last'.calls = <<"get clusters", "create cluster", "get clusters">>
           /\ kubecfgFile' = kubecfgFile
           /\ rc' = rc
           /\ disk' = disk)]_vars

\* a Create returned the inconsistency error after the tool reported a
\* successful create, on a handle that holds credentials from an earlier call
C9_Witness ==
    /\ last.op = "Create" /\ last.err = "inconsistent"
    /\ last.create = "ok_unregistered"
    /\ name[last.h] = NameA
    /\ kubecfgFile[last.h] # NoPath

\* n is a whole line of the listing: a stretch without newline, between the
\* start or a newline and the end or a newline, equal to n
IsLine(listing, n) ==
    \E s \in 1..(Len(listing) + 1) :
        LET e == s + Len(n) - 1
        IN  /\ e <= Len(listing)
            /\ \A k \in 1..Len(n) : listing[s + k - 1] = n[k] /\ n[k] # NL
            /\ s = 1 \/ listing[s - 1] = NL
            /\ e = Len(listing) \/ listing[e + 1] = NL

\* C10: clusterExists(name) is true exactly when the name is a whole line of
\* the listing, compared case- and whitespace-sensitively; "b" is a line of
\* "a\nb\nc", "d" is not, and "foo" is no line of "foo-bar".
C10_ExactLineMatch ==
    exDone =>
        /\ exOk <=> IsLine(exListing, exName)
        /\ (exListing = ListingABC /\ exName = <<"b">>) => exOk
        /\ (exListing = ListingABC /\ exName = <<"d">>) => ~exOk
        /\ (exListing = ListingFooBar /\ exName = NameFoo) => ~exOk
        /\ (exListing = <<"a", "a">> /\ exName = <<"a">>) => ~exOk
        /\ (exListing = <<"A">> /\ exName = <<"a">>) => ~exOk
        /\ (exListing = <<"a", " ">> /\ exName = <<"a">>) => ~exOk

\* the check has run on "foo-bar" for the name "foo" and said no
C10_Witness ==
    /\ exDone /\ ~exOk
    /\ exListing = ListingFooBar /\ exName = NameFoo

-----------------------------------------------------------------------------
(* Properties of the readiness gate *)

\* the listings of this call that showed group key with at least n pods
Satisfied(key, n) ==
    {i \in 1..Len(polls) : polls[i].Key = key /\ polls[i].ok /\ polls[i].seen >= n}

\* C7: a call with an already-cancelled context issues no pod listing and
\* returns a cancellation error (or the error of building the client, which
\* comes before any wait).
C7_CancelledContext ==
    wctxAtCall =>
        /\ polls = <<>>
        /\ wpc = "done" => wres \in {"cancelled", "resources"}

\* C8: no add-on group listing is issued before a control-plane group
\* listing showed its 4 pods; a call whose control-plane wait failed has
\* issued no add-on listing and returns the error; nil is returned only after
\* both groups showed their expected counts (4 and 3).
C8_ReadinessOrdering ==
    /\ \A i \in 1..Len(polls) :
           polls[i].Key = "k8s-app" =>
               \E j \in 1..(i - 1) : j \in Satisfied("component", 4)
    /\ \A i \in 1..Len(polls) : polls[i].Key \in {"component", "k8s-app"}
    /\ (wpc = "done" /\ Satisfied("component", 4) = {}) =>
           /\ wres # "nil"
           /\ \A i \in 1..Len(polls) : polls[i].Key = "component"
    /\ (wpc = "done" /\ wres = "nil") =>
           /\ Satisfied("component", 4) # {}
           /\ Satisfied("k8s-app", 3) # {}
    /\ (wpc = "done" /\ polls # <<>> /\ ~polls[Len(polls)].ok) => wres = "list"

\* a call returned nil after the add-on group was listed twice
C8_Witness ==
    /\ wpc = "done" /\ wres = "nil"
    /\ Len(polls) = 3
    /\ polls[2].Key = "k8s-app" /\ polls[2].seen < 3


-----------------------------------------------------------------------------
(* The teardown, the tool resolution and the client configuration *)

\* C12: a Destroy returns no error only if the delete invocation and the
\* removal of the credential file both succeeded; a failure of either is the
\* error it returns; a Destroy whose delete invocation fails leaves the disk as
\* it was; a Destroy that returns no error leaves no file under the handle's
\* credential path.
C12_DestroyErrors ==
    [][last'.op = "Destroy" /\ last'.err # "install" =>
          /\ last'.err = "nil" <=> (last'.del = "ok" /\ last'.rm = "ok")
          /\ last'.del = "fail" => (last'.err = "delete" /\ disk' = disk)
          /\ last'.rm = "fail" => last'.err = "remove"
          /\ last'.err = "nil" => ~(kubecfgFile'[last'.h] \in DOMAIN disk')]_vars

\* a Destroy whose delete invocation failed while the handle's credential file
\* is on disk
C12_Witness ==
    /\ last.op = "Destroy"
    /\ last.del = "fail"
    /\ last.err = "delete"
    /\ kubecfgFile[last.h] \in DOMAIN disk

\* the operations that run a subcommand of the provisioning tool
ToolOps == {"Create", "Destroy", "ExportLogs", "LoadImage", "LoadImageArchive"}

\* C13: every call of Create, Destroy, ExportLogs, LoadImage and
\* LoadImageArchive has called the locator (it gave the installer a version),
\* and one whose locator failed has issued no tool invocation.
C13_LocatorBeforeTool ==
    last.op \in ToolOps =>
        /\ last.ver # "none"
        /\ last.err = "install" => last.calls = <<>>

\* the subcommands of which a call issues at most one
Subcommands ==
    {"create cluster", "delete cluster", "export logs", "load docker-image",
     "load image-archive", "get kubeconfig"}

Times(c, sub) == Cardinality({i \in 1..Len(c.calls) : c.calls[i] = sub})

LastCall(c) == c.calls[Len(c.calls)]

\* the errors of the credential extraction and of the parse that follows it
ExtractionErrors == {"getkubeconfig", "stdout", "tmpfile", "copy", "parse"}

\* C14: a call of Create, Destroy, ExportLogs, LoadImage or LoadImageArchive
\* issues each of create, delete, export logs, load and get kubeconfig at
\* most once, and the step that failed is the last invocation it issued: none
\* after a failed locator, "create cluster" after a failed create, the second
\* listing after an inconsistency, "get kubeconfig" after a failed extraction
\* or parse, and the one subcommand of Destroy, ExportLogs and the two loads.
C14_NoRetries ==
    last.op \in ToolOps =>
        /\ \A sub \in Subcommands : Times(last, sub) <= 1
        /\ last.err = "install" => last.calls = <<>>
        /\ last.err = "create" =>
               last.calls = <<"get clusters", "create cluster">>
        /\ last.err = "inconsistent" =>
               last.calls = <<"get clusters", "create cluster", "get clusters">>
        /\ last.err \in ExtractionErrors => LastCall(last) = "get kubeconfig"
        /\ last.err = "delete" => last.calls = <<"delete cluster">>
        /\ last.err = "remove" => last.calls = <<"delete cluster">>
        /\ last.err = "export" => last.calls = <<"export logs">>
        /\ last.err = "load" => Len(last.calls) = 1

\* a Create whose "create cluster" invocation failed
C14_Witness ==
    /\ last.op = "Create"
    /\ last.create = "fail"
    /\ last.err = "create"
    /\ Times(last, "create cluster") = 1

\* C15: the client configuration of a handle changes only in a Create of that
\* handle that returns no error, after an extraction that wrote a non-empty
\* file that parses, and it becomes the configuration of that file; it is
\* empty at construction, so it is non-empty only after such a Create.
C15_RestConfigOnlyFromCreate ==
    [][\A h \in AllHandles :
          rc'[h] # rc[h] =>
              /\ last'.op = "Create" /\ last'.h = h /\ last'.err = "nil"
              /\ last'.kube = "good"
              /\ rc'[h] = kubecfgFile'[h]
              /\ confNew(rc'[h], disk')]_vars

\* a Create that provisioned the cluster and set the client configuration
C15_Witness ==
    /\ last.op = "Create" /\ last.err = "nil" /\ last.create = "ok"
    /\ rc[last.h] # NilRc
    /\ rc[last.h] = kubecfgFile[last.h]

-----------------------------------------------------------------------------
(* The re-creation, the name and the results of Create *)

\* C16: the Create that ends a Create, Destroy, Create cycle of one handle,
\* all three returning no error, issues "get kubeconfig" and leaves the handle
\* with the path of a file that is on disk, that this Create wrote (no file
\* was under that path when it was called) and that it returns; the file the
\* Destroy removed is not on disk when it is called.
C16_RecreateReExtracts ==
    [][last.cycle = 2 /\ last'.cycle = 3 =>
          /\ Issued(last', "get kubeconfig")
          /\ ~(kubecfgFile[last'.h] \in DOMAIN disk)
          /\ kubecfgFile'[last'.h] \in DOMAIN disk'
          /\ ~(kubecfgFile'[last'.h] \in DOMAIN disk)
          /\ disk'[kubecfgFile'[last'.h]].owner = last'.h
          /\ last'.ret = kubecfgFile'[last'.h]]_vars

\* the second Create of a cycle has provisioned the cluster again
C16_Witness ==
    /\ last.cycle = 3
    /\ last.create = "ok"
    /\ kubecfgFile[last.h] \in DOMAIN disk

\* C17: a step that follows a Create of a handle that provisioned its cluster
\* leaves the names of the handles as they are.
C17_NameImmutableAfterCreate ==
    [][last.op = "Create" /\ last.err = "nil" /\ last.create = "ok"
          => name' = name]_vars

\* C18 as stated: a Create that returns an error returns the empty path.
C18_EmptyPathOnError ==
    last.op = "Create" /\ last.err # "nil" => last.ret = NoPath

\* C18: a Create that returns an error returns the empty path, except when
\* the error is the parse of the extracted file: then it returns the path of
\* that file, which is on disk and is the one the handle holds.
C18_EmptyPathUnlessParse ==
    last.op = "Create" /\ last.err # "nil" =>
        IF last.err = "parse"
        THEN /\ last.ret # NoPath
             /\ last.ret = kubecfgFile[last.h]
             /\ last.ret \in DOMAIN disk
        ELSE last.ret = NoPath

\* a Create that failed to parse the file it extracted
C18_Witness ==
    /\ last.op = "Create"
    /\ last.err = "parse"
    /\ last.kube = "bad"
    /\ last.ret # NoPath

\* C19: a Create called while the tool has no cluster of the handle's name,
\* and whose locator did not fail, issues "create cluster".
C19_CreateProvisionsWhenAbsent ==
    [][last'.op = "Create" /\ last'.err # "install"
          /\ ~(name[last'.h] \in clusters)
          => Issued(last', "create cluster")]_vars

\* the operations that resolve the tool before they run it
ResolvingOps == {"Create", "Destroy", "ExportLogs"}

\* C11: a Create, Destroy or ExportLogs of a handle gives the installer the
\* handle's version when it has one and the built-in default when it has
\* none, whatever the other handles did before.
C11_DefaultVersionUnlessSet ==
    last.op \in ResolvingOps =>
        last.ver = IF version[last.h] # "" THEN version[last.h]
                   ELSE DefaultKindVersion

=============================================================================
